---- MODULE Spec2Model ----
(***************************************************************************)
(* Model of algobot's strategies.py: the Strategy base class and the       *)
(* StoicStrategy, ShrekStrategy and MovingAverageStrategy rules.           *)
(*                                                                         *)
(* One strategy instance lives in `obj`.  It is built by one of the        *)
(* constructor actions and is then driven by get_trend, get_params and     *)
(* reset_strategy_dictionary calls.  The indicator provider (`parent`) is  *)
(* external: every value it returns is an input of the call.  Within one   *)
(* call the provider answers the same query with the same value.           *)
(*                                                                         *)
(* Python floats are modelled by exact rationals <<numerator, denominator>>*)
(* in lowest terms; a division by zero is the ZeroDivisionError outcome.   *)
(***************************************************************************)
EXTENDS Integers, Sequences, FiniteSets, TLC

VARIABLES
    obj,        \* the strategy instance (its attributes), or NoObject
    fresh,      \* a second instance, constructed with the same parameters at
                \* construction and again at every reset, fed the same inputs
    last,       \* the last operation: its arguments and its outcome
    ctorArgs,   \* the arguments the constructor was called with
    samples,    \* the samples derived by the get_trend calls since construction
                \* or the last reset, in call order (oldest first)
    raised      \* how many of those calls raised an error

vars == <<obj, fresh, last, ctorArgs, samples, raised>>

(***************************************************************************)
(* Bounds of the model.                                                    *)
(***************************************************************************)
MaxCalls == 5
MaxOptions == 3

(***************************************************************************)
(* enums.BULLISH / enums.BEARISH and Python's None.                        *)
(***************************************************************************)
BULLISH == "BULLISH"
BEARISH == "BEARISH"
None == "None"

NoError == "none"
ZeroDivisionError == "ZeroDivisionError"
TypeError == "TypeError"
NotImplementedError == "NotImplementedError"
NoReturn == "raised"

Precision == 2

(***************************************************************************)
(* Arithmetic helpers.                                                     *)
(***************************************************************************)
Min2(a, b) == IF a <= b THEN a ELSE b
Max2(a, b) == IF a >= b THEN a ELSE b

RECURSIVE Gcd(_, _)
Gcd(a, b) == IF b = 0 THEN a ELSE Gcd(b, a % b)

RECURSIVE Pow10(_)
Pow10(p) == IF p = 0 THEN 1 ELSE 10 * Pow10(p - 1)

\* The rational n/d (d > 0, n >= 0) in lowest terms.
Rat(n, d) == LET g == Gcd(n, d) IN <<n \div g, d \div g>>
RatInt(n) == <<n, 1>>
RatAdd(a, b) == Rat(a[1] * b[2] + b[1] * a[2], a[2] * b[2])
RatLess(a, b) == a[1] * b[2] < b[1] * a[2]

\* Python's max(), min(), sum() over a non-empty list, and sum() of floats.
RECURSIVE MaxSeq(_)
MaxSeq(s) == IF Len(s) = 1 THEN s[1] ELSE Max2(s[1], MaxSeq(Tail(s)))
RECURSIVE MinSeq(_)
MinSeq(s) == IF Len(s) = 1 THEN s[1] ELSE Min2(s[1], MinSeq(Tail(s)))
RECURSIVE SumSeq(_)
SumSeq(s) == IF s = << >> THEN 0 ELSE s[1] + SumSeq(Tail(s))
RECURSIVE RatSum(_)
RatSum(s) == IF s = << >> THEN RatInt(0) ELSE RatAdd(s[1], RatSum(Tail(s)))

\* The slice s[:k] for k >= 0.
Prefix(s, k) == SubSeq(s, 1, Min2(k, Len(s)))

\* round(x, precision) of a non-negative rational: the nearest multiple of
\* 10^-precision, a tie going to the even one.
Round(x, precision) ==
    LET scale == Pow10(precision)
        num == x[1] * scale
        q == num \div x[2]
        twice == 2 * (num % x[2])
        up == \/ twice > x[2]
              \/ (twice = x[2] /\ q % 2 = 1)
    IN Rat(IF up THEN q + 1 ELSE q, scale)

(***************************************************************************)
(* The rolling-state mapping (a dict keyed by series name).                *)
(***************************************************************************)
EmptyDict == << >>

DictSet(d, k, v) == [x \in (DOMAIN d) \cup {k} |-> IF x = k THEN v ELSE d[x]]

\* Mutant: the history trimmed to the 3 newest values on every insertion.
InsertFirstTrimmed(d, k, v) ==
    IF k \in DOMAIN d THEN DictSet(d, k, SubSeq(<<v>> \o d[k], 1, Min2(3, Len(d[k]) + 1)))
                       ELSE DictSet(d, k, <<v>>)

\* Mutant: the new value goes behind the older ones.
InsertBehind(d, k, v) ==
    IF k \in DOMAIN d THEN DictSet(d, k, d[k] \o <<v>>) ELSE DictSet(d, k, <<v>>)

\* if k in d: d[k].insert(0, v)  else: d[k] = [v]
InsertFirst(d, k, v) ==
    IF k \in DOMAIN d THEN DictSet(d, k, <<v>> \o d[k]) ELSE DictSet(d, k, <<v>>)

\* if k in d: d[k].append(v)  else: d[k] = [v]
AppendLast(d, k, v) ==
    IF k \in DOMAIN d THEN DictSet(d, k, Append(d[k], v)) ELSE DictSet(d, k, <<v>>)

(***************************************************************************)
(* Strategy (base class).                                                  *)
(***************************************************************************)
NoObject == [name |-> "none"]

StrategyInit(name, precision) ==
    [name |-> name, precision |-> precision, trend |-> None,
     strategyDict |-> EmptyDict]

\* Mutant: the reset clears the trend and forgets the mapping.
reset_trend_only(o) == [o EXCEPT !.trend = None]

reset_strategy_dictionary(o) == [o EXCEPT !.strategyDict = EmptyDict]

\* What a call hands back: the instance after it, the value returned (NoReturn
\* when it raised) and the error raised (NoError when it returned).
Returned(o, value) == [obj |-> o, ret |-> value, exc |-> NoError]
Raised(o, error) == [obj |-> o, ret |-> NoReturn, exc |-> error]

\* Mutant: the early return clears the trend, as the later early returns do.
ShortBatchReturnClearsTrend(o) == Returned([o EXCEPT !.trend = None], None)

\* `return None` at the batch-length check (lines 64 and 161).
ShortBatchReturn(o) == Returned(o, None)

\* Mutant: the base get_trend is an empty method, which returns None.
StrategyGetTrendPass(o) == Returned(o, None)

\* Strategy.get_trend and Strategy.get_params of the base class.
StrategyGetTrendCode(o) == Raised(o, NotImplementedError)
StrategyGetParamsCode(o) == Raised(o, NotImplementedError)

\* The names a direct instance of the base class is given.
BaseNames == {"custom"}

(***************************************************************************)
(* The inputs of a call.                                                   *)
(*                                                                         *)
(* `data` is the batch argument: None, or a list of which only the length  *)
(* matters here.  The provider's RSI answers are drawn from RSIValues, one *)
(* per (period, shift) it is asked for; shift = 0 and update = False are   *)
(* the arguments modelled.                                                 *)
(***************************************************************************)
DataNone == [given |-> FALSE, len |-> 0]
Batch(n) == [given |-> TRUE, len |-> n]

\* Python's truth value of `data`: None and the empty list are false.
Truthy(data) == data.given /\ data.len > 0

\* The arguments tried for a rule whose batch check passes above minLen.
DataArgs(minLen) == {DataNone} \cup {Batch(n) : n \in {0, 1, minLen, minLen + 1}}

RSIValues == {30, 70}

\* One answer per get_rsi(period, shift) query of the call; a call that returns
\* at the batch check asks nothing.
RsiProviders(queries, asked) == IF asked THEN [queries -> RSIValues] ELSE {<< >>}

(***************************************************************************)
(* StoicStrategy.                                                          *)
(***************************************************************************)
StoicParams == {<<2, 2, 0>>, <<2, 2, 2>>, <<2, 2, 4>>, <<1, 2, 2>>, <<2, 1, 1>>}

StoicStrategyInit(input1, input2, input3) ==
    StrategyInit("Stoic", Precision) @@
    [stoicInput1 |-> input1, stoicInput2 |-> input2, stoicInput3 |-> input3]

StoicMinData(o) == Max2(o.stoicInput1, Max2(o.stoicInput2, o.stoicInput3))

\* Mutant: the batch check with < in place of <=.
StoicTooShortStrict(o, data) == data.len < StoicMinData(o)

\* len(data) <= max((input1, input2, input3))
StoicTooShort(o, data) == data.len <= StoicMinData(o)

\* The get_rsi queries of one call: input1 shifts of RSI(input1), input2 of RSI(input2).
StoicQueries(o) ==
    {<<o.stoicInput1, s>> : s \in 0..(o.stoicInput1 - 1)} \cup
    {<<o.stoicInput2, s>> : s \in 0..(o.stoicInput2 - 1)}

\* seneca, zeno, gaius, philo of one call.
StoicSamples(rsi_values_one, rsi_values_two) ==
    [seneca |-> MaxSeq(rsi_values_one) - MinSeq(rsi_values_one),
     zeno |-> rsi_values_one[1] - MinSeq(rsi_values_one),
     gaius |-> rsi_values_two[1] - MinSeq(rsi_values_two),
     philo |-> MaxSeq(rsi_values_two) - MinSeq(rsi_values_two)]

\* Mutant: the sample-count check off by one.
FewerThanFour(d, key) == Len(d[key]) < 4

\* len(self.strategyDict[key]) < 3
FewerThanThree(d, key) == Len(d[key]) < 3

\* Mutant: the two signals exchanged.
StoicClassifySwapped(marcus, stoic) ==
    IF RatLess(stoic, marcus) THEN BULLISH
    ELSE IF RatLess(marcus, stoic) THEN BEARISH
    ELSE None

\* marcus > stoic: BEARISH; marcus < stoic: BULLISH; else None
StoicClassify(marcus, stoic) ==
    IF RatLess(stoic, marcus) THEN BEARISH
    ELSE IF RatLess(marcus, stoic) THEN BULLISH
    ELSE None

\* sum(hist[:3]) of a history of numbers
SumFirstThree(hist) == SumSeq(Prefix(hist, 3))

\* Mutant: marcus summed over the whole hadot history.
HadotWindowSumAll(hadots, input3) == RatSum(hadots)

\* sum(self.strategyDict['hadot'][:input3])
HadotWindowSum(hadots, input3) == RatSum(Prefix(hadots, input3))

\* Mutant: the hadot divisor taken from the gaius history.
HadotDivisorZeroGaius(d) == SumFirstThree(d["gaius"]) = 0

\* The divisors of hadot, of stoic and of marcus.
HadotDivisorZero(d) == SumFirstThree(d["philo"]) = 0
StoicDivisorZero(d, input3) == SumFirstThree(d["seneca"]) = 0 \/ input3 = 0

StoicValues(o, marcus, stoic, x, hadot) ==
    [marcus |-> Round(marcus, o.precision),
     stoic |-> Round(stoic, o.precision),
     seneca |-> Round(RatInt(x.seneca), o.precision),
     zeno |-> Round(RatInt(x.zeno), o.precision),
     gaius |-> Round(RatInt(x.gaius), o.precision),
     philo |-> Round(RatInt(x.philo), o.precision),
     hadot |-> Round(hadot, o.precision)]

\* Lines 73-131: the part of get_trend after the RSI values were fetched.
StoicDerive(o, x) ==
    LET input3 == o.stoicInput3
        d4 == InsertFirst(InsertFirst(InsertFirst(InsertFirst(
                  o.strategyDict, "seneca", x.seneca), "zeno", x.zeno),
                  "gaius", x.gaius), "philo", x.philo)
        o4 == [o EXCEPT !.strategyDict = d4]
        hadot == Rat(SumFirstThree(d4["gaius"]) * 100, SumFirstThree(d4["philo"]))
        d5 == InsertFirst(d4, "hadot", hadot)
        o5 == [o EXCEPT !.strategyDict = d5]
        stoic == Rat(SumFirstThree(d5["zeno"]) * 100, SumFirstThree(d5["seneca"]))
        hadotSum == HadotWindowSum(d5["hadot"], input3)
        marcus == Rat(hadotSum[1], hadotSum[2] * input3)
        d6 == DictSet(d5, "values", StoicValues(o, marcus, stoic, x, hadot))
        trend == StoicClassify(marcus, stoic)
    IN IF FewerThanThree(d4, "gaius")
       THEN Returned([o4 EXCEPT !.trend = None], None)
       ELSE IF HadotDivisorZero(d4) THEN Raised(o4, ZeroDivisionError)
       ELSE IF FewerThanThree(d5, "hadot")
       THEN Returned([o5 EXCEPT !.trend = None], None)
       ELSE IF StoicDivisorZero(d5, input3) THEN Raised(o5, ZeroDivisionError)
       ELSE Returned([o EXCEPT !.strategyDict = d6, !.trend = trend], trend)

\* A get_trend call derives samples unless the batch check returns early.
StoicDerives(o, data) == ~(Truthy(data) /\ StoicTooShort(o, data))

\* get_trend(data): lines 57-71 fetch the RSI values (from the batch or from
\* the live data view), or return None on a batch that is too short.
StoicGetTrendCode(o, data, rsi) ==
    LET rsi_values_one == [i \in 1..o.stoicInput1 |-> rsi[<<o.stoicInput1, i - 1>>]]
        rsi_values_two == [i \in 1..o.stoicInput2 |-> rsi[<<o.stoicInput2, i - 1>>]]
    IN IF StoicDerives(o, data)
       THEN StoicDerive(o, StoicSamples(rsi_values_one, rsi_values_two))
       ELSE ShortBatchReturn(o)

\* Mutant: the first two parameters exchanged.
StoicGetParamsSwapped(o) == <<o.stoicInput2, o.stoicInput1, o.stoicInput3>>

StoicGetParams(o) == <<o.stoicInput1, o.stoicInput2, o.stoicInput3>>

(***************************************************************************)
(* ShrekStrategy.                                                          *)
(***************************************************************************)
ShrekParams == {<<30, 1, 0, 70>>, <<30, 2, 1, 70>>, <<50, 2, 2, 50>>, <<70, 1, 1, 30>>}

ShrekStrategyInit(one, two, three, four) ==
    StrategyInit("Shrek", Precision) @@
    [one |-> one, two |-> two, three |-> three, four |-> four]

ShrekMinData(o) == o.two + 1

\* len(data) <= self.two + 1
ShrekTooShort(o, data) == data.len <= ShrekMinData(o)

\* The get_rsi queries of one call: RSI(two) at shifts 0..two.
ShrekQueries(o) == {<<o.two, x>> : x \in 0..o.two}

\* apple and beetle of one call.
ShrekSamples(rsi) ==
    [apple |-> MaxSeq(rsi) - MinSeq(rsi), beetle |-> rsi[1] - MinSeq(rsi)]

\* Lines 172-180: both samples appended to their histories.
ShrekAppend(d, x) == AppendLast(AppendLast(d, "apple", x.apple), "beetle", x.beetle)

\* len(self.strategyDict['apple']) < self.three + 1
ShrekWindowShort(o, d) == Len(d["apple"]) < o.three + 1

\* Mutant: nothing is dropped.
DropNothing(hist) == hist

\* hist[1:]
DropOldest(hist) == SubSeq(hist, 2, Len(hist))

\* sum(hist[:three + 1])
ShrekWindowSum(hist, three) == SumSeq(Prefix(hist, three + 1))

\* Mutant: the thresholds compared with >= in place of >.
ShrekClassifyInclusive(one, onion, four) ==
    IF ~RatLess(RatInt(one), onion) THEN BULLISH
    ELSE IF ~RatLess(onion, RatInt(four)) THEN BEARISH
    ELSE None

\* one > onion: BULLISH; onion > four: BEARISH; else None
ShrekClassify(one, onion, four) ==
    IF RatLess(onion, RatInt(one)) THEN BULLISH
    ELSE IF RatLess(RatInt(four), onion) THEN BEARISH
    ELSE None

ShrekValues(o, x, carrot, donkey, onion) ==
    [apple |-> Round(RatInt(x.apple), o.precision),
     beetle |-> Round(RatInt(x.beetle), o.precision),
     carrot |-> Round(RatInt(carrot), o.precision),
     donkey |-> Round(RatInt(donkey), o.precision),
     onion |-> Round(onion, o.precision)]

\* Mutant: the short-window return clears the trend.
ShrekShortWindowClearsTrend(o, d2) ==
    Returned([o EXCEPT !.strategyDict = d2, !.trend = None], None)

\* Lines 182-183: return None with the samples appended, the trend untouched.
ShrekShortWindowReturn(o, d2) == Returned([o EXCEPT !.strategyDict = d2], None)

\* Mutant: the division fails before the histories are trimmed.
ShrekDivisionErrorUntrimmed(o, d2, d4) ==
    Raised([o EXCEPT !.strategyDict = d2], ZeroDivisionError)

\* Line 189 dividing by donkey == 0: lines 187-188 have trimmed the histories
\* (d4), lines 191-204 are not reached.
ShrekDivisionError(o, d2, d4) ==
    Raised([o EXCEPT !.strategyDict = d4], ZeroDivisionError)

\* Lines 167-206: the part of get_trend after the RSI values were fetched.
ShrekDerive(o, x) ==
    LET d2 == ShrekAppend(o.strategyDict, x)
        carrot == ShrekWindowSum(d2["beetle"], o.three)
        donkey == ShrekWindowSum(d2["apple"], o.three)
        d4 == DictSet(DictSet(d2, "beetle", DropOldest(d2["beetle"])),
                      "apple", DropOldest(d2["apple"]))
        onion == Rat(carrot * 100, donkey)
        d5 == DictSet(d4, "values", ShrekValues(o, x, carrot, donkey, onion))
        trend == ShrekClassify(o.one, onion, o.four)
    IN IF ShrekWindowShort(o, d2)
       THEN ShrekShortWindowReturn(o, d2)
       ELSE IF donkey = 0
       THEN ShrekDivisionError(o, d2, d4)
       ELSE Returned([o EXCEPT !.strategyDict = d5, !.trend = trend], trend)

ShrekDerives(o, data) == ~(Truthy(data) /\ ShrekTooShort(o, data))

ShrekGetTrendCode(o, data, rsi) ==
    LET samplesOfCall == [i \in 1..(o.two + 1) |-> rsi[<<o.two, i - 1>>]]
    IN IF ShrekDerives(o, data)
       THEN ShrekDerive(o, ShrekSamples(samplesOfCall))
       ELSE ShortBatchReturn(o)

ShrekGetParams(o) == <<o.one, o.two, o.three, o.four>>

(***************************************************************************)
(* MovingAverageStrategy.                                                  *)
(*                                                                         *)
(* An element of tradingOptions is a value with a Python type; an Option   *)
(* (or an instance of a subclass of Option) has movingAverage, parameter,  *)
(* initialBound and finalBound.                                            *)
(***************************************************************************)
OptionValue(type, movingAverage, initialBound, finalBound) ==
    [type |-> type, movingAverage |-> movingAverage, parameter |-> "close",
     initialBound |-> initialBound, finalBound |-> finalBound]

OptionValues ==
    {OptionValue("Option", "SMA", 1, 2),
     OptionValue("Option", "EMA", 1, 2), OptionValue("Option", "EMA", 3, 1),
     OptionValue("OptionSubclass", "SMA", 1, 2), OptionValue("str", "", 0, 0)}

OptionLists == UNION {[1..n -> OptionValues] : n \in 0..MaxOptions}

MovingAverageStrategyInit(tradingOptions) ==
    StrategyInit("movingAverage", Precision) @@ [tradingOptions |-> tradingOptions]

\* Mutant: isinstance(option, Option) in place of the exact type test.
NotAnOptionInstance(option) == option.type \notin {"Option", "OptionSubclass"}

\* type(option) != Option
NotAnOption(option) == option.type # "Option"

\* validate_options: the error it raises, NoError when it returns.
validate_options(o) ==
    IF \E i \in 1..Len(o.tradingOptions) : NotAnOption(o.tradingOptions[i])
    THEN TypeError
    ELSE NoError

\* Mutant: only finalBound enters the maximum.
RECURSIVE MinOptionPeriodFinalOnly(_, _)
MinOptionPeriodFinalOnly(options, minimum) ==
    IF options = << >> THEN minimum
    ELSE MinOptionPeriodFinalOnly(Tail(options), Max2(minimum, options[1].finalBound))

RECURSIVE MinOptionPeriodLoop(_, _)
MinOptionPeriodLoop(options, minimum) ==
    IF options = << >> THEN minimum
    ELSE MinOptionPeriodLoop(Tail(options),
             Max2(minimum, Max2(options[1].finalBound, options[1].initialBound)))

get_min_option_period(o) == MinOptionPeriodLoop(o.tradingOptions, 0)

AvgValues == {1, 2}

\* The get_moving_average queries of one call: (movingAverage, bound, parameter).
MAQueries(o) ==
    UNION {{<<o.tradingOptions[i].movingAverage, o.tradingOptions[i].initialBound,
              o.tradingOptions[i].parameter>>,
            <<o.tradingOptions[i].movingAverage, o.tradingOptions[i].finalBound,
              o.tradingOptions[i].parameter>>} : i \in 1..Len(o.tradingOptions)}

MAProviders(queries) == [queries -> AvgValues]

\* avg1 and avg2 of every option, in option order.
MAAverages(o, ma) ==
    [i \in 1..Len(o.tradingOptions) |->
        LET option == o.tradingOptions[i]
        IN <<ma[<<option.movingAverage, option.initialBound, option.parameter>>],
             ma[<<option.movingAverage, option.finalBound, option.parameter>>]>>]

\* avg1 > avg2: BULLISH; avg1 < avg2: BEARISH; else None
OptionTrend(avg1, avg2) ==
    IF avg1 > avg2 THEN BULLISH ELSE IF avg1 < avg2 THEN BEARISH ELSE None

\* all(trend == wanted for trend in trends)
AllTrends(trends, wanted) == \A i \in 1..Len(trends) : trends[i] = wanted

\* Mutant: any() in place of all().
OverallTrendAny(trends) ==
    IF \E i \in 1..Len(trends) : trends[i] = BULLISH THEN BULLISH
    ELSE IF \E i \in 1..Len(trends) : trends[i] = BEARISH THEN BEARISH
    ELSE None

OverallTrend(trends) ==
    IF AllTrends(trends, BULLISH) THEN BULLISH
    ELSE IF AllTrends(trends, BEARISH) THEN BEARISH
    ELSE None

\* Mutant: without unanimity the previous trend is kept and returned.
MAGetTrendCodeSticky(o, avgs) ==
    LET trends == [i \in 1..Len(avgs) |-> OptionTrend(avgs[i][1], avgs[i][2])]
        trend == IF OverallTrend(trends) = None THEN o.trend ELSE OverallTrend(trends)
    IN Returned([o EXCEPT !.trend = trend], trend)

MAGetTrendCode(o, avgs) ==
    LET trends == [i \in 1..Len(avgs) |-> OptionTrend(avgs[i][1], avgs[i][2])]
        trend == OverallTrend(trends)
    IN Returned([o EXCEPT !.trend = trend], trend)

MAGetParams(o) == o.tradingOptions

\* get_params() of the instance's class.
get_params(o) ==
    CASE o.name = "Stoic" -> StoicGetParams(o)
      [] o.name = "Shrek" -> ShrekGetParams(o)
      [] o.name = "movingAverage" -> MAGetParams(o)

(***************************************************************************)
(* Actions.                                                                *)
(***************************************************************************)
Init ==
    /\ obj = NoObject
    /\ fresh = NoObject
    /\ last = [op |-> "none"]
    /\ ctorArgs = << >>
    /\ samples = << >>
    /\ raised = 0

\* The instance a constructor call with these arguments builds.
Construct(class, args) ==
    CASE class = "Stoic" -> StoicStrategyInit(args[1], args[2], args[3])
      [] class = "Shrek" -> ShrekStrategyInit(args[1], args[2], args[3], args[4])
      [] class = "movingAverage" -> MovingAverageStrategyInit(args)
      [] class \in BaseNames -> StrategyInit(args[1], args[2])

Unconstructed == obj = NoObject /\ last.op = "none"

TrendCall(data, r, f, derived, preTrim, avgs) ==
    [op |-> "get_trend", data |-> data, ret |-> r.ret, exc |-> r.exc,
     freshRet |-> f.ret, freshExc |-> f.exc, derived |-> derived,
     preTrim |-> preTrim, avgs |-> avgs]

NewStrategy ==
    /\ Unconstructed
    /\ \E name \in BaseNames :
          /\ obj' = StrategyInit(name, Precision)
          /\ fresh' = StrategyInit(name, Precision)
          /\ ctorArgs' = <<name, Precision>>
          /\ last' = [op |-> "init", class |-> name, exc |-> NoError]
    /\ UNCHANGED <<samples, raised>>

NewStoicStrategy ==
    /\ Unconstructed
    /\ \E p \in StoicParams :
          /\ obj' = StoicStrategyInit(p[1], p[2], p[3])
          /\ fresh' = StoicStrategyInit(p[1], p[2], p[3])
          /\ ctorArgs' = p
    /\ last' = [op |-> "init", class |-> "Stoic", exc |-> NoError]
    /\ UNCHANGED <<samples, raised>>

NewShrekStrategy ==
    /\ Unconstructed
    /\ \E p \in ShrekParams :
          /\ obj' = ShrekStrategyInit(p[1], p[2], p[3], p[4])
          /\ fresh' = ShrekStrategyInit(p[1], p[2], p[3], p[4])
          /\ ctorArgs' = p
    /\ last' = [op |-> "init", class |-> "Shrek", exc |-> NoError]
    /\ UNCHANGED <<samples, raised>>

\* __init__ assigns the attributes and then validates: an error leaves no instance.
NewMovingAverageStrategy ==
    /\ Unconstructed
    /\ \E tradingOptions \in OptionLists :
          LET o == MovingAverageStrategyInit(tradingOptions)
              error == validate_options(o)
          IN /\ obj' = IF error = NoError THEN o ELSE NoObject
             /\ fresh' = IF error = NoError THEN o ELSE NoObject
             /\ ctorArgs' = tradingOptions
             /\ last' = [op |-> "init", class |-> "movingAverage", exc |-> error]
    /\ UNCHANGED <<samples, raised>>

StoicGetTrend ==
    /\ obj.name = "Stoic"
    /\ \E data \in DataArgs(StoicMinData(obj)) :
       \E rsi \in RsiProviders(StoicQueries(obj), StoicDerives(obj, data)) :
          LET r == StoicGetTrendCode(obj, data, rsi)
              f == StoicGetTrendCode(fresh, data, rsi)
              derived == StoicDerives(obj, data)
              x == StoicSamples([i \in 1..obj.stoicInput1 |-> rsi[<<obj.stoicInput1, i - 1>>]],
                                [i \in 1..obj.stoicInput2 |-> rsi[<<obj.stoicInput2, i - 1>>]])
          IN /\ derived => Len(samples) < MaxCalls
             /\ obj' = r.obj
             /\ fresh' = f.obj
             /\ last' = TrendCall(data, r, f, derived, << >>, << >>)
             /\ samples' = IF derived THEN Append(samples, x) ELSE samples
             /\ raised' = IF r.exc = NoError THEN raised ELSE raised + 1
    /\ UNCHANGED ctorArgs

ShrekGetTrend ==
    /\ obj.name = "Shrek"
    /\ \E data \in DataArgs(ShrekMinData(obj)) :
       \E rsi \in RsiProviders(ShrekQueries(obj), ShrekDerives(obj, data)) :
          LET r == ShrekGetTrendCode(obj, data, rsi)
              f == ShrekGetTrendCode(fresh, data, rsi)
              derived == ShrekDerives(obj, data)
              x == ShrekSamples([i \in 1..(obj.two + 1) |-> rsi[<<obj.two, i - 1>>]])
              d2 == ShrekAppend(obj.strategyDict, x)
              preTrim == IF derived /\ ~ShrekWindowShort(obj, d2)
                         THEN <<Len(d2["apple"]), Len(d2["beetle"])>>
                         ELSE << >>
          IN /\ derived => Len(samples) < MaxCalls
             /\ obj' = r.obj
             /\ fresh' = f.obj
             /\ last' = TrendCall(data, r, f, derived, preTrim, << >>)
             /\ samples' = IF derived THEN Append(samples, x) ELSE samples
             /\ raised' = IF r.exc = NoError THEN raised ELSE raised + 1
    /\ UNCHANGED ctorArgs

MAGetTrend ==
    /\ obj.name = "movingAverage"
    /\ \E data \in DataArgs(get_min_option_period(obj)) :
       \E ma \in MAProviders(MAQueries(obj)) :
          LET avgs == MAAverages(obj, ma)
              r == MAGetTrendCode(obj, avgs)
              f == MAGetTrendCode(fresh, avgs)
          IN /\ obj' = r.obj
             /\ fresh' = f.obj
             /\ last' = TrendCall(data, r, f, TRUE, << >>, avgs)
    /\ UNCHANGED <<ctorArgs, samples, raised>>

\* get_trend(data) on a direct instance of the base class.
StrategyGetTrend ==
    /\ obj.name \in BaseNames
    /\ \E data \in DataArgs(1) :
          LET r == StrategyGetTrendCode(obj)
              f == StrategyGetTrendCode(fresh)
          IN /\ obj' = r.obj
             /\ fresh' = f.obj
             /\ last' = TrendCall(data, r, f, FALSE, << >>, << >>)
    /\ UNCHANGED <<ctorArgs, samples, raised>>

\* get_params() on a direct instance of the base class.
StrategyGetParams ==
    /\ obj.name \in BaseNames
    /\ LET r == StrategyGetParamsCode(obj)
       IN /\ obj' = r.obj
          /\ last' = [op |-> "get_params", ret |-> r.ret, exc |-> r.exc]
    /\ UNCHANGED <<fresh, ctorArgs, samples, raised>>

GetParams ==
    /\ obj.name \in {"Stoic", "Shrek", "movingAverage"}
    /\ last' = [op |-> "get_params", ret |-> get_params(obj), exc |-> NoError]
    /\ UNCHANGED <<obj, fresh, ctorArgs, samples, raised>>

GetMinOptionPeriod ==
    /\ obj.name = "movingAverage"
    /\ last' = [op |-> "get_min_option_period", ret |-> get_min_option_period(obj),
                exc |-> NoError]
    /\ UNCHANGED <<obj, fresh, ctorArgs, samples, raised>>

\* The second instance is constructed anew with the constructor's arguments.
ResetStrategyDictionary ==
    /\ obj # NoObject
    /\ obj' = reset_strategy_dictionary(obj)
    /\ fresh' = Construct(obj.name, ctorArgs)
    /\ last' = [op |-> "reset", exc |-> NoError]
    /\ samples' = << >>
    /\ raised' = 0
    /\ UNCHANGED ctorArgs

Next ==
    \/ NewStrategy
    \/ StrategyGetTrend
    \/ StrategyGetParams
    \/ NewStoicStrategy
    \/ NewShrekStrategy
    \/ NewMovingAverageStrategy
    \/ StoicGetTrend
    \/ ShrekGetTrend
    \/ MAGetTrend
    \/ GetParams
    \/ GetMinOptionPeriod
    \/ ResetStrategyDictionary

Spec == Init /\ [][Next]_vars

(***************************************************************************)
(* Properties.                                                             *)
(***************************************************************************)
IsStoic == obj.name = "Stoic"
IsShrek == obj.name = "Shrek"
IsMovingAverage == obj.name = "movingAverage"
IsBase == obj.name \in BaseNames

TrendCalled == last.op = "get_trend"
DerivingCall == TrendCalled /\ last.derived
ReturnedNone == last.ret = None /\ last.exc = NoError

Hist(key) == IF key \in DOMAIN obj.strategyDict THEN obj.strategyDict[key] ELSE << >>

C2_ResetBehavesAsFresh ==
    /\ last.op = "reset" => obj.strategyDict = EmptyDict
    /\ (IsStoic \/ IsShrek) /\ TrendCalled
          => /\ last.ret = last.freshRet
             /\ last.exc = last.freshExc
             /\ obj.strategyDict = fresh.strategyDict

\* A Shrek instance that was reset while its trend was BULLISH has derived
\* samples again and returned None, as the fresh instance (trend None) did.
C2_Witness ==
    /\ IsShrek /\ DerivingCall /\ ReturnedNone
    /\ obj.trend = BULLISH /\ fresh.trend = None
    /\ Len(samples) >= 1

AllUp(avgs) == \A i \in 1..Len(avgs) : avgs[i][1] > avgs[i][2]
AllDown(avgs) == \A i \in 1..Len(avgs) : avgs[i][1] < avgs[i][2]

\* C3: MovingAverageStrategy.get_trend over a non-empty option list returns
\* BULLISH exactly when every option has avg(initialBound) > avg(finalBound),
\* BEARISH exactly when every option has avg(initialBound) < avg(finalBound),
\* None in every other case; the trend attribute is the returned value.
C3_Unanimity ==
    IsMovingAverage /\ TrendCalled /\ Len(obj.tradingOptions) >= 1
       => /\ last.exc = NoError
          /\ last.ret = BULLISH <=> AllUp(last.avgs)
          /\ last.ret = BEARISH <=> AllDown(last.avgs)
          /\ last.ret = None <=> (~AllUp(last.avgs) /\ ~AllDown(last.avgs))
          /\ obj.trend = last.ret

\* Three options voting BULLISH, BULLISH, BEARISH: the overall trend is None.
C3_Witness ==
    /\ IsMovingAverage /\ TrendCalled /\ Len(obj.tradingOptions) = 3
    /\ last.avgs[1][1] > last.avgs[1][2]
    /\ last.avgs[2][1] > last.avgs[2][2]
    /\ last.avgs[3][1] < last.avgs[3][2]
    /\ last.ret = None

\* The call passed the batch check, raised nothing and left at least 3 hadot
\* samples: it classified.
StoicClassified ==
    IsStoic /\ DerivingCall /\ last.exc = NoError /\ Len(Hist("hadot")) >= 3

\* C4: on every StoicStrategy.get_trend call that reaches classification, with
\* stoic = sum(zeno[:3]) / sum(seneca[:3]) * 100 and marcus =
\* sum(hadot[:input3]) / input3 over the newest-first histories, the call
\* returns BEARISH if marcus > stoic, BULLISH if marcus < stoic, None if they
\* are equal, and the trend attribute is that value.
C4_StoicClassification ==
    StoicClassified =>
       LET zenoSum == SumSeq(Prefix(Hist("zeno"), 3))
           senecaSum == SumSeq(Prefix(Hist("seneca"), 3))
           hadotSum == RatSum(Prefix(Hist("hadot"), obj.stoicInput3))
           \* marcus ? stoic, cross-multiplied: both divisors are positive
           marcusSide == hadotSum[1] * senecaSum
           stoicSide == zenoSum * 100 * hadotSum[2] * obj.stoicInput3
       IN /\ senecaSum > 0 /\ obj.stoicInput3 > 0
          /\ marcusSide > stoicSide => last.ret = BEARISH
          /\ marcusSide < stoicSide => last.ret = BULLISH
          /\ marcusSide = stoicSide => last.ret = None
          /\ obj.trend = last.ret

\* A classifying call returned BEARISH with fewer hadot samples than input3.
C4_Witness ==
    /\ StoicClassified
    /\ last.ret = BEARISH
    /\ Len(Hist("hadot")) < obj.stoicInput3

\* The three + 1 most recent samples of the calls since the state was empty.
ShrekWindow == SubSeq(samples, Len(samples) - obj.three, Len(samples))

RECURSIVE SumField(_, _)
SumField(s, field) == IF s = << >> THEN 0 ELSE s[1][field] + SumField(Tail(s), field)

\* The call found a full window (history length >= three + 1).
ShrekWindowFull == IsShrek /\ DerivingCall /\ last.preTrim # << >>

\* C5: on every ShrekStrategy.get_trend call that reaches classification, with
\* onion = carrot / donkey * 100 (carrot, donkey the sums of the beetle and apple
\* windows), the call returns BULLISH if one > onion, otherwise BEARISH if
\* onion > four, otherwise None, and the trend attribute is that value.
C5_ShrekClassification ==
    ShrekWindowFull /\ last.exc = NoError =>
       LET carrot == SumField(ShrekWindow, "beetle")
           donkey == SumField(ShrekWindow, "apple")
       IN /\ donkey > 0
          /\ last.ret = IF obj.one * donkey > carrot * 100 THEN BULLISH
                        ELSE IF carrot * 100 > obj.four * donkey THEN BEARISH
                        ELSE None
          /\ obj.trend = last.ret

\* A classifying call with one <= onion <= four returned None, onion = one.
C5_Witness ==
    /\ ShrekWindowFull /\ last.exc = NoError
    /\ obj.one * SumField(ShrekWindow, "apple") = SumField(ShrekWindow, "beetle") * 100
    /\ last.ret = None

\* C6: in ShrekStrategy, from empty state: the apple and beetle histories have
\* equal length; a call finds a full window exactly from call number three + 1
\* on; on such a call both histories have length three + 1 before trimming and
\* three after, so carrot and donkey are the sums over the three + 1 most recent
\* samples; after every call both lengths are at most three.
C6_ShrekWindowLengths ==
    IsShrek =>
       /\ Len(Hist("apple")) = Len(Hist("beetle"))
       /\ Len(Hist("apple")) <= obj.three
       /\ DerivingCall => (last.preTrim # << >> <=> Len(samples) >= obj.three + 1)
       /\ ShrekWindowFull =>
             /\ last.preTrim = <<obj.three + 1, obj.three + 1>>
             /\ Len(Hist("apple")) = obj.three
             /\ Len(Hist("beetle")) = obj.three
       /\ ShrekWindowFull /\ last.exc = NoError =>
             /\ Hist("values").carrot = RatInt(SumField(ShrekWindow, "beetle"))
             /\ Hist("values").donkey = RatInt(SumField(ShrekWindow, "apple"))

\* With three = 2, a call later than the first full-window call classified.
C6_Witness ==
    /\ ShrekWindowFull /\ last.exc = NoError
    /\ obj.three = 2
    /\ Len(samples) = obj.three + 3

\* Every call since empty state had the same RSI-derived samples, gaius == philo.
ConstantInputs ==
    \A i \in 1..Len(samples) :
        samples[i] = samples[1] /\ samples[i].gaius = samples[i].philo

\* Every call since empty state saw flat RSI values: all four samples are 0.
FlatInputs ==
    \A i \in 1..Len(samples) :
        samples[i] = [seneca |-> 0, zeno |-> 0, gaius |-> 0, philo |-> 0]

\* C7 as stated: with constant RSI inputs, gaius == philo on every call, for
\* input2 + 3 consecutive calls from empty state, no call raises an error and
\* the trend after the last call is None.
C7_FlatDataNoErrorNoSignal ==
    IsStoic /\ DerivingCall /\ ConstantInputs /\ Len(samples) <= obj.stoicInput2 + 3
       => /\ last.exc = NoError
          /\ Len(samples) = obj.stoicInput2 + 3 => obj.trend = None

\* C7 amended: with flat RSI inputs (every RSI value of a call equal, so
\* seneca = zeno = gaius = philo = 0) on every call from empty state, the first
\* two calls return None, every later call raises a division-by-zero error, and
\* the trend attribute is None after every call: no BULLISH or BEARISH signal.
C7_FlatDataRaisesNoSignal ==
    IsStoic /\ DerivingCall /\ FlatInputs
       => /\ Len(samples) < 3 => ReturnedNone
          /\ Len(samples) >= 3 => last.exc = ZeroDivisionError
          /\ obj.trend = None

\* The last of input2 + 3 flat calls raised.
C7_Witness ==
    /\ IsStoic /\ DerivingCall /\ FlatInputs
    /\ Len(samples) = obj.stoicInput2 + 3
    /\ last.exc = ZeroDivisionError

\* C8: a StoicStrategy.get_trend call with sufficient data raises a division-by-
\* zero error exactly when, after its insertions, there are at least 3
\* gaius/philo samples and sum(philo[:3]) == 0, or at least 3 hadot samples and
\* (sum(seneca[:3]) == 0 or input3 == 0); otherwise it returns a trend or None.
C8_StoicDivisionByZero ==
    IsStoic /\ DerivingCall =>
       LET degenerate ==
              \/ Len(Hist("philo")) >= 3 /\ SumSeq(Prefix(Hist("philo"), 3)) = 0
              \/ /\ Len(Hist("hadot")) >= 3
                 /\ \/ SumSeq(Prefix(Hist("seneca"), 3)) = 0
                    \/ obj.stoicInput3 = 0
       IN /\ last.exc = ZeroDivisionError <=> degenerate
          /\ ~degenerate => last.exc = NoError /\ last.ret \in {BULLISH, BEARISH, None}

\* The divisor input3 == 0 raised, with neither window sum being 0.
C8_Witness ==
    /\ IsStoic /\ DerivingCall /\ last.exc = ZeroDivisionError
    /\ obj.stoicInput3 = 0
    /\ Len(Hist("hadot")) >= 3
    /\ SumSeq(Prefix(Hist("philo"), 3)) > 0
    /\ SumSeq(Prefix(Hist("seneca"), 3)) > 0

MAConstructed == last.op = "init" /\ last.class = "movingAverage"

\* C9: constructing a MovingAverageStrategy fails with a TypeError if and only
\* if some element of tradingOptions is not of the exact Option type; otherwise
\* (the empty list included) it succeeds with trend None and an empty mapping.
C9_OptionValidation ==
    MAConstructed =>
       LET foreign == \E i \in 1..Len(ctorArgs) : ctorArgs[i].type # "Option"
       IN /\ last.exc = TypeError <=> foreign
          /\ ~foreign => /\ last.exc = NoError
                         /\ obj.name = "movingAverage"
                         /\ obj.trend = None
                         /\ obj.strategyDict = EmptyDict
                         /\ obj.tradingOptions = ctorArgs

\* Construction failed on a list of Options and one instance of a subclass.
C9_Witness ==
    /\ MAConstructed /\ last.exc = TypeError
    /\ Len(ctorArgs) >= 2
    /\ \A i \in 1..Len(ctorArgs) : ctorArgs[i].type \in {"Option", "OptionSubclass"}

\* C10: after any sequence of get_trend and reset_strategy_dictionary calls,
\* get_params() returns the constructor parameters unchanged and in construction
\* order; get_params itself changes no state.
C10_GetParams ==
    /\ [](last.op = "get_params" /\ ~IsBase => last.ret = ctorArgs /\ last.exc = NoError)
    /\ [][last'.op = "get_params" => UNCHANGED <<obj, ctorArgs>>]_vars

\* get_params was called on a Stoic instance that has classified.
C10_Witness ==
    /\ IsStoic /\ last.op = "get_params"
    /\ Len(Hist("hadot")) >= 3
    /\ obj.trend # None

\* C11: get_trend and get_params on the abstract base Strategy always fail
\* with a not-implemented error and leave the trend attribute and the rolling-
\* state mapping unchanged; reset_strategy_dictionary on the base succeeds.
C11_BaseNotImplemented ==
    /\ [](IsBase /\ last.op \in {"get_trend", "get_params"}
             => last.exc = NotImplementedError /\ last.ret = NoReturn)
    /\ [](IsBase /\ last.op = "reset"
             => last.exc = NoError /\ obj.strategyDict = EmptyDict)
    /\ [][IsBase /\ last'.op \in {"get_trend", "get_params"}
             => obj'.trend = obj.trend /\ obj'.strategyDict = obj.strategyDict]_vars

\* get_trend was called with a batch on a base instance and raised.
C11_Witness ==
    /\ IsBase /\ TrendCalled /\ last.data.given
    /\ last.exc = NotImplementedError
    /\ obj.trend = None /\ obj.strategyDict = EmptyDict

\* A non-empty batch that is too short for the rule of instance o.
ShortNonEmptyBatch(o, data) ==
    /\ data.given /\ data.len >= 1
    /\ \/ /\ o.name = "Stoic"
          /\ data.len <= Max2(o.stoicInput1, Max2(o.stoicInput2, o.stoicInput3))
       \/ /\ o.name = "Shrek"
          /\ data.len <= o.two + 1

\* C12: a StoicStrategy or ShrekStrategy get_trend call given a non-empty batch
\* that is too short returns None and leaves the whole instance unchanged: no
\* key of the mapping is added or modified and the trend keeps its value.
C12_ShortBatchChangesNothing ==
    /\ [](TrendCalled /\ ShortNonEmptyBatch(obj, last.data) => ReturnedNone)
    /\ [][last'.op = "get_trend" /\ ShortNonEmptyBatch(obj, last'.data)
             => obj' = obj]_vars

\* A Stoic instance whose trend is BEARISH was handed a short batch: the call
\* returned None and the trend and the stored values are still there.
C12_Witness ==
    /\ IsStoic /\ TrendCalled /\ ShortNonEmptyBatch(obj, last.data)
    /\ ReturnedNone
    /\ obj.trend = BEARISH
    /\ "values" \in DOMAIN obj.strategyDict

\* C13: from empty state, with sufficient data and no arithmetic error, the
\* first four StoicStrategy.get_trend calls return None and set the trend to
\* None: calls 1 and 2 only extend seneca/zeno/gaius/philo, calls 3 and 4 also
\* add a hadot sample, and the 5th call is the first to compute stoic and
\* marcus, to write the 'values' entry and to be able to return a signal.
C13_StoicWarmUp ==
    IsStoic /\ DerivingCall /\ raised = 0 =>
       LET n == Len(samples)
           keys == DOMAIN obj.strategyDict
       IN /\ n <= 4 => /\ ReturnedNone
                       /\ obj.trend = None
                       /\ "values" \notin keys
          /\ n <= 2 => /\ keys = {"seneca", "zeno", "gaius", "philo"}
                       /\ \A k \in keys : Len(obj.strategyDict[k]) = n
          /\ n \in {3, 4} => /\ keys = {"seneca", "zeno", "gaius", "philo", "hadot"}
                             /\ Len(obj.strategyDict["hadot"]) = n - 2
          /\ n = 5 => /\ Len(Hist("hadot")) = 3
                      /\ "values" \in keys

\* The 5th call since a reset, none having raised, returned BULLISH.
C13_Witness ==
    /\ IsStoic /\ DerivingCall /\ raised = 0
    /\ Len(samples) = 5
    /\ last.ret = BULLISH

\* The sum of the k most recent values of a newest-first history of rationals.
RECURSIVE SumMostRecent(_, _)
SumMostRecent(hist, k) ==
    IF k = 0 THEN RatInt(0) ELSE RatAdd(hist[k], SumMostRecent(hist, k - 1))

\* C14: on a classifying StoicStrategy.get_trend call, marcus (recorded rounded
\* in the 'values' entry) is the sum of the min(input3, number of hadot samples)
\* most recent hadot values divided by the full input3: with fewer than input3
\* samples the missing ones count as zero, and with at least input3 samples
\* marcus is the mean of the input3 most recent hadot values.
C14_MarcusWindow ==
    StoicClassified =>
       LET hadots == Hist("hadot")
           input3 == obj.stoicInput3
           k == IF input3 < Len(hadots) THEN input3 ELSE Len(hadots)
           total == SumMostRecent(hadots, k)
       IN /\ input3 > 0
          /\ Hist("values").marcus = Round(<<total[1], total[2] * input3>>, obj.precision)

\* A classifying call with fewer hadot samples than input3: marcus is below
\* every hadot sample it was computed from.
C14_Witness ==
    /\ StoicClassified
    /\ Len(Hist("hadot")) < obj.stoicInput3
    /\ \A i \in 1..Len(Hist("hadot")) : RatLess(Hist("values").marcus, Hist("hadot")[i])

StoicSampleKeys == {"seneca", "zeno", "gaius", "philo"}

\* The hadot value of call number m >= 3: over the samples of calls m - 2 .. m.
HadotOfCall(m) ==
    Rat(100 * SumField(SubSeq(samples, m - 2, m), "gaius"),
        SumField(SubSeq(samples, m - 2, m), "philo"))

\* hist is old with zero or more values put in front.
ExtendsAtFront(hist, old) ==
    /\ Len(hist) >= Len(old)
    /\ SubSeq(hist, Len(hist) - Len(old) + 1, Len(hist)) = old

\* C15: in StoicStrategy, after n get_trend calls since construction or the
\* last reset that passed the data-length check, none of them raising, the
\* seneca, zeno, gaius and philo histories each hold exactly n values, the value
\* of the most recent call at index 0 and older ones in call order behind it; the
\* hadot history holds exactly max(0, n - 2) values newest-first; and no call
\* other than reset_strategy_dictionary removes a value from any history.
C15_StoicHistories ==
    /\ [](IsStoic /\ raised = 0 =>
            LET n == Len(samples)
            IN /\ \A key \in StoicSampleKeys :
                     /\ Len(Hist(key)) = n
                     /\ \A i \in 1..n : Hist(key)[i] = samples[n + 1 - i][key]
               /\ Len(Hist("hadot")) = IF n > 2 THEN n - 2 ELSE 0
               /\ \A j \in 1..Len(Hist("hadot")) : Hist("hadot")[j] = HadotOfCall(n + 1 - j))
    /\ [][IsStoic /\ last'.op # "reset" =>
            \A key \in StoicSampleKeys \cup {"hadot"} :
                key \in DOMAIN obj.strategyDict =>
                   /\ key \in DOMAIN obj'.strategyDict
                   /\ ExtendsAtFront(obj'.strategyDict[key], obj.strategyDict[key])]_vars

\* Five calls with differing samples and differing hadot values, none raising.
C15_Witness ==
    /\ IsStoic /\ DerivingCall /\ raised = 0
    /\ Len(samples) = 5
    /\ samples[1] # samples[5]
    /\ Len(Hist("hadot")) = 3
    /\ Hist("hadot")[1] # Hist("hadot")[3]

\* The longest slice a rule reads from one of its histories.
WindowNeeded ==
    IF IsStoic THEN Max2(3, obj.stoicInput3)
    ELSE IF IsShrek THEN obj.three + 1
    ELSE 0

\* C16 as stated: every concrete strategy trims its rolling state to the
\* window it needs: in every reachable state of a StoicStrategy, ShrekStrategy
\* or MovingAverageStrategy, no per-key history of the mapping is longer than
\* the bound fixed by the constructor parameters (Stoic: max(3, input3), the
\* longest slice read; Shrek: three + 1; MovingAverage: 0).
C16_EveryStrategyTrims ==
    IsStoic \/ IsShrek \/ IsMovingAverage =>
       \A key \in DOMAIN obj.strategyDict \ {"values"} :
           Len(obj.strategyDict[key]) <= WindowNeeded

\* C16 amended: only ShrekStrategy trims (apple and beetle hold at most three
\* values after every call) and MovingAverageStrategy keeps the mapping empty;
\* StoicStrategy never trims: its seneca, zeno, gaius and philo histories hold
\* one value per call that passed the data-length check since construction or
\* the last reset, and each such call makes each of them longer by one.
C16_OnlyShrekTrims ==
    /\ [](IsShrek => \A key \in DOMAIN obj.strategyDict \ {"values"} :
                         Len(obj.strategyDict[key]) <= obj.three)
    /\ [](IsMovingAverage => obj.strategyDict = EmptyDict)
    /\ [](IsStoic => \A key \in StoicSampleKeys : Len(Hist(key)) = Len(samples))
    /\ [][IsStoic /\ last'.op = "get_trend" /\ last'.derived =>
            \A key \in StoicSampleKeys :
               Len(obj'.strategyDict[key]) = Len(Hist(key)) + 1]_vars

\* A Stoic history longer than any slice the rule reads from it.
C16_Witness ==
    /\ IsStoic /\ DerivingCall /\ last.exc = NoError
    /\ Len(Hist("seneca")) = 5
    /\ Len(Hist("seneca")) > WindowNeeded

\* C17: MovingAverageStrategy.get_trend accumulates no rolling state: in every
\* state the mapping is empty and the option list is the constructed one; a
\* call changes no field but the trend attribute, which becomes the returned
\* value; and the returned value is a function of the current call's moving
\* averages alone.
C17_MovingAverageStateless ==
    /\ [](IsMovingAverage =>
             /\ obj.strategyDict = EmptyDict
             /\ obj.tradingOptions = ctorArgs)
    /\ [](IsMovingAverage /\ TrendCalled =>
             /\ last.exc = NoError
             /\ last.ret = IF AllUp(last.avgs) THEN BULLISH
                           ELSE IF AllDown(last.avgs) THEN BEARISH
                           ELSE None)
    /\ [][IsMovingAverage /\ last'.op = "get_trend" =>
             obj' = [obj EXCEPT !.trend = last'.ret]]_vars

\* A call over two options returned BEARISH; the mapping is still empty.
C17_Witness ==
    /\ IsMovingAverage /\ TrendCalled
    /\ Len(obj.tradingOptions) = 2
    /\ last.ret = BEARISH /\ obj.trend = BEARISH
    /\ obj.strategyDict = EmptyDict

\* C18 as stated: for every strategy, after any get_trend call that returns
\* normally the trend attribute equals the value that call returned, calls that
\* return None for insufficient data or history included.
C18_TrendIsLastReturn ==
    (IsStoic \/ IsShrek \/ IsMovingAverage) /\ TrendCalled /\ last.exc = NoError
       => obj.trend = last.ret

\* C18 amended: the trend attribute equals the returned value after every
\* MovingAverageStrategy call, every StoicStrategy call that passed the batch
\* check and returned, and every ShrekStrategy call that found a full window
\* and returned; a Stoic or Shrek call that returns None on a too-short batch,
\* and a Shrek call that returns None on a short window, leave the trend
\* attribute as it was.
C18_TrendAfterReturn ==
    /\ [](IsMovingAverage /\ TrendCalled => obj.trend = last.ret)
    /\ [](IsStoic /\ DerivingCall /\ last.exc = NoError => obj.trend = last.ret)
    /\ [](ShrekWindowFull /\ last.exc = NoError => obj.trend = last.ret)
    /\ [][/\ IsStoic \/ IsShrek
          /\ last'.op = "get_trend"
          /\ ~last'.derived \/ (IsShrek /\ last'.preTrim = << >>)
          => /\ last'.ret = None /\ last'.exc = NoError
             /\ obj'.trend = obj.trend]_vars

\* The first Shrek call after a reset returned None on a short window while
\* the trend attribute still reads BEARISH.
C18_Witness ==
    /\ IsShrek /\ DerivingCall /\ last.preTrim = << >>
    /\ Len(samples) = 1
    /\ ReturnedNone
    /\ obj.trend = BEARISH

\* The 'values' entry of a mapping, or "absent".
ValuesEntry(d) == IF "values" \in DOMAIN d THEN d["values"] ELSE "absent"

\* C19: a ShrekStrategy.get_trend call that found a full window raises a
\* division-by-zero error exactly when the window sum donkey is 0, and only
\* after the new apple/beetle samples were appended and the oldest dropped:
\* after the failed call both histories have length three and end with the new
\* sample, while the 'values' entry and the trend attribute are as before the
\* call; the next call that derives samples finds a full window again.
C19_ShrekDivisionByZero ==
    /\ [](ShrekWindowFull =>
             (last.exc = ZeroDivisionError <=> SumField(ShrekWindow, "apple") = 0))
    /\ [](IsShrek /\ TrendCalled /\ last.exc = ZeroDivisionError => ShrekWindowFull)
    /\ [][IsShrek /\ last'.op = "get_trend" /\ last'.exc = ZeroDivisionError =>
            LET x == samples'[Len(samples')]
            IN /\ last'.preTrim = <<obj.three + 1, obj.three + 1>>
               /\ obj'.strategyDict["apple"] = Tail(Append(Hist("apple"), x.apple))
               /\ obj'.strategyDict["beetle"] = Tail(Append(Hist("beetle"), x.beetle))
               /\ Len(obj'.strategyDict["apple"]) = obj.three
               /\ Len(obj'.strategyDict["beetle"]) = obj.three
               /\ ValuesEntry(obj'.strategyDict) = ValuesEntry(obj.strategyDict)
               /\ obj'.trend = obj.trend]_vars
    /\ [][/\ IsShrek /\ TrendCalled /\ last.exc = ZeroDivisionError
          /\ last'.op = "get_trend" /\ last'.derived
          => last'.preTrim = <<obj.three + 1, obj.three + 1>>]_vars

\* A call failed on donkey == 0 after an earlier call had classified BULLISH:
\* the stored values and the trend are those of the earlier call.
C19_Witness ==
    /\ IsShrek /\ TrendCalled /\ last.exc = ZeroDivisionError
    /\ obj.three >= 1
    /\ Len(Hist("apple")) = obj.three
    /\ "values" \in DOMAIN obj.strategyDict
    /\ obj.trend = BULLISH

\* The initialBound and finalBound values of the instance's options.
OptionBounds ==
    {obj.tradingOptions[i].initialBound : i \in 1..Len(obj.tradingOptions)}
       \cup {obj.tradingOptions[i].finalBound : i \in 1..Len(obj.tradingOptions)}

\* C20: a MovingAverageStrategy constructed with an empty option list has
\* get_min_option_period() == 0 and its get_trend returns BULLISH on every
\* call; for a non-empty list get_min_option_period() returns the maximum over
\* all options of initialBound and finalBound.
C20_MinOptionPeriod ==
    /\ IsMovingAverage /\ last.op = "get_min_option_period" =>
          /\ last.exc = NoError
          /\ Len(obj.tradingOptions) = 0 => last.ret = 0
          /\ Len(obj.tradingOptions) >= 1 =>
                /\ last.ret \in OptionBounds
                /\ \A bound \in OptionBounds : bound <= last.ret
    /\ IsMovingAverage /\ TrendCalled /\ Len(obj.tradingOptions) = 0 =>
          /\ last.exc = NoError
          /\ last.ret = BULLISH
          /\ obj.trend = BULLISH

\* An instance without options whose get_trend has returned BULLISH reports a
\* minimum period of 0.
C20_Witness ==
    /\ IsMovingAverage /\ last.op = "get_min_option_period"
    /\ Len(obj.tradingOptions) = 0
    /\ obj.trend = BULLISH
    /\ last.ret = 0

====
